---- MODULE Spec2Model ----
(***************************************************************************)
(* xzreader: a frame-sequencing reader over liblzma and a buffered         *)
(* descriptor source (reada.h).  The reader's operations are translated    *)
(* from src/xzreader.c, the two-pass driver from src/main.c.               *)
(*                                                                         *)
(* Bytes are strings.  A frame is                                          *)
(*     LZMA_STREAM_HEADER_SIZE x "H", a body, "F", "E"                     *)
(* where a body byte "a" or "b" decodes to itself, "R" decodes to two more *)
(* copies of the last decoded byte and "Z" decodes to nothing; "F" opens   *)
(* the footer and "E" ends the frame.                                      *)
(*                                                                         *)
(* Pointers into the source's buffer are modelled by the descriptor offset *)
(* of the byte they point at; the empty window cur = end = NULL is         *)
(* cur = end = pos.                                                        *)
(***************************************************************************)
EXTENDS Integers, Sequences, FiniteSets, TLC

VARIABLES
    file,       \* file[s]: the content of source s's descriptor (an index of Files)
    fda,        \* fda[s]: struct fda of source s: descriptor offset and window [cur, end)
    z,          \* struct xzreader: live, fda, lzma, eof
    zp,         \* the caller's handle *zp as left by the last xzreader_open
    engines,    \* number of lzma_stream instances initialised and not yet lzma_end'ed
    pc,         \* "idle", or "read" inside the loop of xzreader_read, or "abort"
    size,       \* xzreader_read: remaining capacity of buf
    total,      \* xzreader_read: bytes recovered so far by this call
    buf,        \* xzreader_read: the offset of its buf pointer in the caller's buffer
    dest,       \* the caller's buffer in the last xzreader_read call; "?" is a byte
                \* the call has not written
    op,         \* the last operation called
    ret,        \* its return value
    err,        \* the caller's err[2] as written by the last operation
    probe,      \* the value reada returned to the last xzreader_begin
    srcCalled,  \* the last operation has called reada or peeka
    codeCalled, \* the last operation has called lzma_code
    began,      \* the return value of the last open/reopen
    got,        \* bytes delivered by returned reads since the last open/reopen
    frameStart, \* the source's logical position when the last open/reopen began
    fault,      \* the environment has failed an allocation or a descriptor read
    obs,        \* what the last operation saw and did: the fda argument and z->eof
                \* on entry of open/reopen, whether reopen replaced the stream, the
                \* operation a read was called after and what it returned, the
                \* source's cursor when the read was called, and for the last
                \* iteration of xzreader_read the struct fda as peeka left it, the
                \* return value of lzma_code, the bytes it used and the bytes it
                \* recovered, and the parity of the iterations of the call
    mpc,        \* main: position in the driver
    out,        \* main: what was written to stdout
    log1,       \* main: results of the first pass
    log2,       \* main: results of the second pass
    exit        \* main: exit code, -1 while running

libvars == <<file, fda, z, zp, engines, pc, size, total, buf, dest, op, ret, err,
             probe, srcCalled, codeCalled, began, got, frameStart, fault, obs>>
mainvars == <<mpc, out, log1, log2, exit>>
vars == <<file, fda, z, zp, engines, pc, size, total, buf, dest, op, ret, err,
          probe, srcCalled, codeCalled, began, got, frameStart, fault, obs, mpc, out, log1, log2,
          exit>>

----------------------------------------------------------------------------
(* Bounds and constants *)

\* capacity of the source's buffer (reada.h's NREADA, scaled down)
NREADA == 5

\* largest size argument a caller passes to xzreader_read
MaxSize == 3

\* sizeof buf in main (scaled down)
MainBufSize == 2

LZMA_STREAM_HEADER_SIZE == 12

Sources == {1, 2}

Min(a, b) == IF a < b THEN a ELSE b

RECURSIVE Flatten(_)
Flatten(ss) == IF ss = <<>> THEN <<>> ELSE Head(ss) \o Flatten(Tail(ss))

IsPrefix(s, t) == Len(s) <= Len(t) /\ SubSeq(t, 1, Len(s)) = s

----------------------------------------------------------------------------
(* Descriptor contents *)

Hdr == [i \in 1..LZMA_STREAM_HEADER_SIZE |-> "H"]

\* The frames of the reference compressor: compressed body and original content.
Bodies == << <<"a", "Z", "Z", "Z", "R", "b">>, <<"Z", "b">>, <<>> >>
Contents == << <<"a", "a", "a", "b">>, <<"b">>, <<>> >>

Frame(k) == Hdr \o Bodies[k] \o <<"F", "E">>

\* A descriptor holds whole frames followed by a tail: nothing, a header cut
\* short, a frame cut short after its header (of content cut), or bytes that
\* are no frame.
Files == <<
    [frames |-> <<>>,        kind |-> "whole", tail |-> <<>>,                       cut |-> <<>>],
    [frames |-> <<1>>,       kind |-> "whole", tail |-> <<>>,                       cut |-> <<>>],
    [frames |-> <<1, 2>>,    kind |-> "whole", tail |-> <<>>,                       cut |-> <<>>],
    [frames |-> <<2, 3, 1>>, kind |-> "whole", tail |-> <<>>,                       cut |-> <<>>],
    [frames |-> <<>>,        kind |-> "short", tail |-> <<"H", "H", "H", "H", "H">>, cut |-> <<>>],
    [frames |-> <<2>>,       kind |-> "short", tail |-> <<"H", "H", "H">>,          cut |-> <<>>],
    [frames |-> <<>>,        kind |-> "cut",   tail |-> Hdr \o <<"a", "Z", "Z", "Z", "R">>, cut |-> <<"a", "a", "a">>],
    [frames |-> <<>>,        kind |-> "cut",   tail |-> Hdr \o <<"Z", "b", "F">>,   cut |-> <<"b">>],
    [frames |-> <<2>>,       kind |-> "cut",   tail |-> Hdr,                        cut |-> <<>>],
    [frames |-> <<>>,        kind |-> "bad",   tail |-> [i \in 1..LZMA_STREAM_HEADER_SIZE |-> IF i = 3 THEN "a" ELSE "H"] \o <<"a", "F", "E">>, cut |-> <<>>],
    [frames |-> <<>>,        kind |-> "bad",   tail |-> Hdr \o <<"a", "Z", "Z", "Z", "E", "F", "E">>, cut |-> <<>>]
>>

FramesBytes(f) == Flatten([i \in 1..Len(Files[f].frames) |-> Frame(Files[f].frames[i])])

Bytes(f) == FramesBytes(f) \o Files[f].tail

\* offset of the i-th frame's header (of the tail, for i one past the frames)
FrameOffset(f, i) == Len(Flatten([j \in 1..(i - 1) |-> Frame(Files[f].frames[j])]))

NFrames(f) == Len(Files[f].frames)

----------------------------------------------------------------------------
(* The frame decode engine: liblzma's stream decoder, one frame per instance *)

NoLzma == [seq |-> "none", hn |-> 0, hok |-> TRUE, pend |-> <<>>, last |-> ""]

\* LZMA_STREAM_INIT followed by a successful lzma_stream_decoder(&lzma, MEMLIMIT, 0)
FreshLzma == [seq |-> "header", hn |-> 0, hok |-> TRUE, pend |-> <<>>, last |-> ""]

\* lzma_stream_decoder: LZMA_OK, or LZMA_MEM_ERROR when the allocation fails
lzma_stream_decoder == {"LZMA_OK", "LZMA_MEM_ERROR"}

CodeResult(st, used, o, r) == [st |-> st, used |-> used, out |-> o, ret |-> r]

\* One lzma_code(strm, LZMA_RUN) call on input in (next_in, avail_in = Len(in))
\* with avail output space: the state after, the input bytes used, the output
\* produced and the return value.  After LZMA_STREAM_END the stream is finished:
\* every further call returns LZMA_STREAM_END and uses nothing; after a fatal
\* error, and on a stream with no decoder, it returns LZMA_PROG_ERROR.
RECURSIVE Decode(_, _, _, _, _)
Decode(st, in, used, o, avail) ==
    CASE st.seq = "none"  -> CodeResult(st, used, o, "LZMA_PROG_ERROR")
      [] st.seq = "error" -> CodeResult(st, used, o, "LZMA_PROG_ERROR")
      [] st.seq = "end"   -> CodeResult(st, used, o, "LZMA_STREAM_END")
      [] st.seq = "header" ->
            IF used = Len(in) THEN CodeResult(st, used, o, "LZMA_OK")
            ELSE LET hn  == st.hn + 1
                     hok == st.hok /\ in[used + 1] = "H"
                 IN  IF hn < LZMA_STREAM_HEADER_SIZE
                     THEN Decode([st EXCEPT !.hn = hn, !.hok = hok], in, used + 1, o, avail)
                     ELSE IF hok
                     THEN Decode([st EXCEPT !.seq = "body", !.hn = hn], in, used + 1, o, avail)
                     ELSE CodeResult([st EXCEPT !.seq = "error", !.hn = hn, !.hok = hok],
                                     used + 1, o, "LZMA_FORMAT_ERROR")
      [] st.seq = "body" ->
            IF st.pend # <<>>
            THEN IF Len(o) < avail
                 THEN Decode([st EXCEPT !.pend = Tail(st.pend), !.last = Head(st.pend)],
                             in, used, Append(o, Head(st.pend)), avail)
                 ELSE CodeResult(st, used, o, "LZMA_OK")
            ELSE IF used = Len(in) THEN CodeResult(st, used, o, "LZMA_OK")
            ELSE LET b == in[used + 1]
                 IN  CASE b \in {"a", "b"} ->
                            Decode([st EXCEPT !.pend = <<b>>], in, used + 1, o, avail)
                       [] b = "R" /\ st.last # "" ->
                            Decode([st EXCEPT !.pend = <<st.last, st.last>>], in, used + 1, o, avail)
                       [] b = "Z" ->
                            Decode(st, in, used + 1, o, avail)
                       [] b = "F" ->
                            Decode([st EXCEPT !.seq = "footer"], in, used + 1, o, avail)
                       [] OTHER ->
                            CodeResult([st EXCEPT !.seq = "error"], used + 1, o, "LZMA_DATA_ERROR")
      [] st.seq = "footer" ->
            IF used = Len(in) THEN CodeResult(st, used, o, "LZMA_OK")
            ELSE IF in[used + 1] = "E"
            THEN CodeResult([st EXCEPT !.seq = "end"], used + 1, o, "LZMA_STREAM_END")
            ELSE CodeResult([st EXCEPT !.seq = "error"], used + 1, o, "LZMA_DATA_ERROR")

lzma_code(st, in, avail) == Decode(st, in, 0, <<>>, avail)

\* a decode step under its contract alone: it uses zero or more bytes of its
\* input, writes zero or more bytes within avail, and returns need-more,
\* frame-complete or a fatal error
any_code(st, in, avail) ==
    {CodeResult(st, u, [i \in 1..o |-> "a"], r) :
        u \in 0..Len(in), o \in 0..avail,
        r \in {"LZMA_OK", "LZMA_STREAM_END", "LZMA_DATA_ERROR"}}

\* the outcomes of one decode step of the engine the reader runs over:
\* liblzma's decoder, or any decoder that keeps the contract
decode_step(engine, st, in, avail) ==
    IF engine = "any" THEN any_code(st, in, avail) ELSE {lzma_code(st, in, avail)}

----------------------------------------------------------------------------
(* The buffered source: reada.h *)

Fda0 == [pos |-> 0, cur |-> 0, end |-> 0]

Left(f) == f.end - f.cur

\* the bytes of the consumable window [cur, end)
Window(f, bytes) == SubSeq(bytes, f.cur + 1, f.end)

SrcResult(f, n, bad) == [fda |-> f, ret |-> n, fault |-> bad]

\* peeka(fda, &w, n): makes n bytes visible, reading the descriptor until the
\* window holds n bytes or the descriptor ends; each read(2) returns what it
\* likes, up to the room in the buffer.  Returns the bytes visible, at most n;
\* -1 when read(2) fails (the failing read(2) is the first of the call).
peeka(f, len, n) ==
    IF Left(f) >= n THEN {SrcResult(f, n, FALSE)}
    ELSE LET rem  == len - f.pos
             room == NREADA - Left(f)
             need == n - Left(f)
         IN  {SrcResult([f EXCEPT !.pos = f.pos + a, !.end = f.pos + a],
                        Min(Left(f) + a, n), FALSE) :
                a \in {x \in 0..Min(rem, room) : x >= need \/ x = rem}}
             \cup
             {SrcResult(f, -1, TRUE)}

\* reada(fda, buf, n): copies n bytes out of the window, reading the descriptor
\* (the excess into the buffer) until n bytes are copied or the descriptor ends.
\* Returns the bytes copied, fewer than n only at the end of the descriptor;
\* -1 when read(2) fails (the failing read(2) is the first of the call, after
\* the window was copied out).
reada(f, len, n) ==
    IF Left(f) >= n THEN {SrcResult([f EXCEPT !.cur = f.cur + n], n, FALSE)}
    ELSE LET rem  == len - f.pos
             need == n - Left(f)
         IN  (IF rem < need
              THEN {SrcResult([pos |-> len, cur |-> len, end |-> len], Left(f) + rem, FALSE)}
              ELSE {SrcResult([pos |-> f.pos + a, cur |-> f.pos + need, end |-> f.pos + a],
                              n, FALSE) :
                        a \in need..Min(rem, need + NREADA)})
             \cup
             {SrcResult([f EXCEPT !.cur = f.pos, !.end = f.pos], -1, TRUE)}

----------------------------------------------------------------------------
(* src/xzreader.c *)

Unset == <<"unset", "unset">>

xstrerror == "strerror(errno)"

lzma_strerror(r) ==
    CASE r = "LZMA_MEM_ERROR"     -> "Memory allocation failed"
      [] r = "LZMA_OPTIONS_ERROR" -> "Unsupported decompressor flags"
      [] r = "LZMA_FORMAT_ERROR"  -> "The input is not in the .xz format"
      [] r = "LZMA_DATA_ERROR"    -> "Compressed file is corrupt"
      [] r = "LZMA_BUF_ERROR"     -> "Compressed file is truncated or otherwise corrupt"
      [] OTHER                    -> "Unknown error, possibly a bug"

\* ERRNO setting err[0] alone
ERRNOHalf(func) == <<func, "unset">>

ERRNO(func) == <<func, xstrerror>>
ERRXZ(func, r) == <<func, lzma_strerror(r)>>
ERRSTR(func, str) == <<func, str>>

BeginResult(rc, lz, f, e, n, fed, bad, ok) ==
    [rc |-> rc, lzma |-> lz, fda |-> f, err |-> e, n |-> n, fed |-> fed,
     fault |-> bad, asserted |-> ok]

\* ProbeClass with the first two tests merged: if (n <= 0) return 0
ProbeClassNoError(n) ==
    IF n <= 0 THEN "empty"
    ELSE IF n < LZMA_STREAM_HEADER_SIZE THEN "small"
    ELSE "header"

\* ProbeClass without the test n < sizeof buf
ProbeClassNoSmall(n) ==
    IF n < 0 THEN "error"
    ELSE IF n = 0 THEN "empty"
    ELSE "header"

\* xzreader_begin: what the value n returned by reada means
ProbeClass(n) ==
    IF n < 0 THEN "error"
    ELSE IF n = 0 THEN "empty"
    ELSE IF n < LZMA_STREAM_HEADER_SIZE THEN "small"
    ELSE "header"

\* xzreader_begin(lzma, fda, err) after reada returned r: the header probe
BeginAfter(lz, f, bytes, r) ==
    CASE ProbeClass(r.ret) = "error" ->
            BeginResult(-1, lz, r.fda, ERRNO("read"), r.ret, FALSE, TRUE, TRUE)
      [] ProbeClass(r.ret) = "empty" ->
            BeginResult(0, lz, r.fda, Unset, r.ret, FALSE, FALSE, TRUE)
      [] ProbeClass(r.ret) = "small" ->
            BeginResult(-1, lz, r.fda, ERRSTR("xzreader_begin", "input too small"),
                        r.ret, FALSE, FALSE, TRUE)
      [] OTHER ->
            LET c == lzma_code(lz, SubSeq(bytes, r.fda.cur - r.ret + 1, r.fda.cur), 0)
            IN  IF c.ret # "LZMA_OK"
                THEN BeginResult(-1, c.st, r.fda, ERRXZ("lzma_code", c.ret), r.ret, TRUE,
                                 FALSE, TRUE)
                ELSE BeginResult(1, c.st, r.fda, Unset, r.ret, TRUE, FALSE,
                                 c.used = LZMA_STREAM_HEADER_SIZE)

xzreader_begin(lz, f, bytes) ==
    {BeginAfter(lz, f, bytes, r) : r \in reada(f, Len(bytes), LZMA_STREAM_HEADER_SIZE)}

NoReader == [live |-> FALSE, fda |-> 1, lzma |-> NoLzma, eof |-> FALSE]

\* nothing seen yet by the operation
NoObs == [arg |-> 0, eof0 |-> FALSE, reset |-> FALSE,
          prev |-> [op |-> "none", ret |-> 0, err |-> Unset],
          cur0 |-> 0, win |-> Fda0, sig |-> "none", used |-> 0, n |-> 0, tick |-> FALSE]

\* malloc(sizeof *z): succeeds or returns NULL
malloc == {TRUE, FALSE}

OpenResult(rc, zz, h, e, n, bad) ==
    [rc |-> rc, z |-> zz, zp |-> h, err |-> e, engines |-> n, fault |-> bad]

\* OpenFinish without lzma_end when malloc fails
OpenFinishLeak(s, b, m) ==
    IF b.rc <= 0 THEN OpenResult(b.rc, NoReader, "unset", b.err, 0, b.fault)
    ELSE IF ~m THEN OpenResult(-1, NoReader, "unset", ERRNO("malloc"), 1, TRUE)
    ELSE OpenResult(1, [live |-> TRUE, fda |-> s, lzma |-> b.lzma, eof |-> FALSE],
                    "z", Unset, 1, FALSE)

\* OpenFinish without z->eof = false, the reader's eof taken as true
OpenFinishEof(s, b, m) ==
    IF b.rc <= 0 THEN OpenResult(b.rc, NoReader, "unset", b.err, 0, b.fault)
    ELSE IF ~m THEN OpenResult(-1, NoReader, "unset", ERRNO("malloc"), 0, TRUE)
    ELSE OpenResult(1, [live |-> TRUE, fda |-> s, lzma |-> b.lzma, eof |-> TRUE],
                    "z", Unset, 1, FALSE)

\* xzreader_open after lzma_stream_decoder succeeded and xzreader_begin
\* returned b, with malloc's outcome m: the reader, *zp, err and the number of
\* live engine instances
OpenFinish(s, b, m) ==
    IF b.rc <= 0 THEN OpenResult(b.rc, NoReader, "unset", b.err, 0, b.fault)
    ELSE IF ~m THEN OpenResult(-1, NoReader, "unset", ERRNO("malloc"), 0, TRUE)
    ELSE OpenResult(1, [live |-> TRUE, fda |-> s, lzma |-> b.lzma, eof |-> FALSE],
                    "z", Unset, 1, FALSE)

\* int xzreader_open(struct xzreader **zp, struct fda *fda, const char *err[2])
xzreader_open(s) ==
    /\ pc = "idle"
    /\ ~z.live
    /\ op' = "open"
    /\ obs' = [NoObs EXCEPT !.arg = s]
    /\ got' = <<>>
    /\ frameStart' = fda[s].cur
    /\ \E d \in lzma_stream_decoder :
          IF d # "LZMA_OK"
          THEN /\ ret' = -1
               /\ err' = ERRXZ("lzma_stream_decoder", d)
               /\ fault' = TRUE
               /\ srcCalled' = FALSE /\ codeCalled' = FALSE
               /\ zp' = "unset"
               /\ began' = -1
               /\ UNCHANGED <<fda, z, engines, pc, probe>>
          ELSE \E b \in xzreader_begin(FreshLzma, fda[s], Bytes(file[s])) :
               \E m \in malloc :
                  LET o == OpenFinish(s, b, m)
                  IN  /\ fda' = [fda EXCEPT ![s] = b.fda]
                      /\ probe' = b.n
                      /\ srcCalled' = TRUE /\ codeCalled' = b.fed
                      /\ pc' = IF b.asserted THEN "idle" ELSE "abort"
                      /\ ret' = o.rc
                      /\ began' = o.rc
                      /\ err' = o.err
                      /\ z' = o.z
                      /\ zp' = o.zp
                      /\ engines' = engines + o.engines
                      /\ fault' = (fault \/ o.fault)
    /\ UNCHANGED <<file, size, total, buf, dest>>

\* ReopenResets for a reopen that never keeps the stream
ReopenResetsAlways(zz) == TRUE

\* ReopenResets for a reopen that always keeps the stream
ReopenResetsNever(zz) == FALSE

\* xzreader_reopen: the stream can be reused only upon successful decoding
ReopenResets(zz) == ~zz.eof

\* ReopenSource ignoring the fda argument
ReopenSourceKept(zz, s) == zz.fda

\* xzreader_reopen: if (fda) z->fda = fda; s = 0 is fda = NULL
ReopenSource(zz, s) == IF s # 0 THEN s ELSE zz.fda

\* Rearmed without the assignment
RearmedNot(zz) == zz

\* xzreader_reopen: z->eof = false
Rearmed(zz) == [zz EXCEPT !.eof = FALSE]

\* int xzreader_reopen(struct xzreader *z, struct fda *fda, const char *err[2]);
\* s = 0 is fda = NULL; F is the state of the sources when it is called
xzreader_reopen_on(s, F) ==
    /\ pc = "idle"
    /\ z.live
    /\ op' = "reopen"
    /\ obs' = [NoObs EXCEPT !.arg = s, !.eof0 = z.eof, !.reset = ReopenResets(z)]
    /\ got' = <<>>
    /\ LET t == ReopenSource(z, s)
       IN  /\ frameStart' = F[t].cur
           /\ \E d \in lzma_stream_decoder :
                 IF ReopenResets(z) /\ d # "LZMA_OK"
                 THEN /\ z' = [z EXCEPT !.fda = t, !.lzma = NoLzma]
                      /\ engines' = engines - (IF z.lzma.seq # "none" THEN 1 ELSE 0)
                      /\ ret' = -1
                      /\ began' = -1
                      /\ err' = ERRXZ("lzma_stream_decoder", d)
                      /\ fault' = TRUE
                      /\ srcCalled' = FALSE /\ codeCalled' = FALSE
                      /\ fda' = F
                      /\ UNCHANGED <<pc, probe>>
                 ELSE LET lz == IF ReopenResets(z) THEN FreshLzma ELSE z.lzma
                      IN  \E b \in xzreader_begin(lz, F[t], Bytes(file[t])) :
                             /\ z' = [Rearmed(z) EXCEPT !.fda = t, !.lzma = b.lzma]
                             /\ engines' = IF ReopenResets(z) /\ z.lzma.seq = "none"
                                           THEN engines + 1 ELSE engines
                             /\ fda' = [F EXCEPT ![t] = b.fda]
                             /\ probe' = b.n
                             /\ srcCalled' = TRUE /\ codeCalled' = b.fed
                             /\ pc' = IF b.asserted THEN "idle" ELSE "abort"
                             /\ ret' = b.rc
                             /\ began' = b.rc
                             /\ err' = b.err
                             /\ fault' = (fault \/ b.fault)
    /\ UNCHANGED <<file, zp, size, total, buf, dest>>

xzreader_reopen(s) == xzreader_reopen_on(s, fda)

\* void xzreader_free(struct xzreader *z)
xzreader_free ==
    /\ pc = "idle"
    /\ z.live
    /\ op' = "free"
    /\ obs' = NoObs
    /\ z' = NoReader
    /\ engines' = engines - (IF z.lzma.seq # "none" THEN 1 ELSE 0)
    /\ ret' = 0
    /\ err' = Unset
    /\ srcCalled' = FALSE /\ codeCalled' = FALSE
    /\ UNCHANGED <<file, fda, zp, pc, size, total, buf, dest, probe, began, got, frameStart,
                   fault>>

\* ReadEarly without the check of z->eof
ReadEarlyNever(zz) == FALSE

\* xzreader_read: if (z->eof) return 0;
ReadEarly(zz) == zz.eof

\* xzreader_read, from its entry to the loop
xzreader_read(c) ==
    /\ pc = "idle"
    /\ z.live
    /\ op' = "read"
    /\ obs' = [NoObs EXCEPT !.prev = [op |-> op, ret |-> ret, err |-> err],
                             !.cur0 = fda[z.fda].cur]
    /\ err' = Unset
    /\ srcCalled' = FALSE /\ codeCalled' = FALSE
    /\ size' = c
    /\ total' = 0
    /\ buf' = 0
    /\ dest' = [i \in 1..c |-> "?"]
    /\ IF ReadEarly(z)
       THEN ret' = 0 /\ UNCHANGED pc
       ELSE pc' = "read" /\ UNCHANGED ret
    /\ UNCHANGED <<file, fda, z, zp, engines, probe, began, got, frameStart, fault>>

\* Consumed, taking the whole tentative window as read
ConsumedWindow(f, avail_in) == [f EXCEPT !.cur = f.pos, !.end = f.pos]

\* Consumed leaving the window as it was
ConsumedNot(f, avail_in) == f

\* Consumed, moving end instead of cur
ConsumedEnd(f, avail_in) ==
    IF avail_in # 0
    THEN [f EXCEPT !.end = f.end - avail_in]
    ELSE [f EXCEPT !.cur = f.pos, !.end = f.pos]

\* Consumed, taking avail_in for the number of bytes read
ConsumedUsed(f, avail_in) ==
    IF avail_in # 0
    THEN [f EXCEPT !.cur = f.cur + avail_in]
    ELSE [f EXCEPT !.cur = f.pos, !.end = f.pos]

\* xzreader_read: see how many bytes have been read
Consumed(f, avail_in) ==
    IF avail_in # 0
    THEN [f EXCEPT !.cur = f.end - avail_in]
    ELSE [f EXCEPT !.cur = f.pos, !.end = f.pos]

\* lzma_code writing o at next_out, offset b of the caller's buffer d
Written(d, b, o) ==
    [i \in 1..Len(d) |-> IF b < i /\ i <= b + Len(o) THEN o[i - b] ELSE d[i]]

\* Advanced with buf left where it was
AdvancedNot(b, n) == b

\* xzreader_read: buf = (char *) buf + n
Advanced(b, n) == b + n

\* AtEof returning 0 for the end of the descriptor
AtEofZero(tot) == [ret |-> 0, err |-> Unset, eof |-> FALSE]

\* AtEof taking the end of the descriptor for the end of the frame
AtEofEnds(tot) == [ret |-> tot, err |-> Unset, eof |-> TRUE]

\* xzreader_read: peeka returned 0
AtEof(tot) == [ret |-> -1, err |-> ERRSTR("xzreader_read", "unexpected EOF"), eof |-> FALSE]

\* LoopAgain without the negation: while (size && z->eof)
LoopAgainEof(sz, eof) == sz # 0 /\ eof

\* xzreader_read: while (size && !z->eof)
LoopAgain(sz, eof) == sz # 0 /\ ~eof

\* xzreader_read: whether the return value of lzma_code ends the call in failure
CodeFails(r) == r # "LZMA_STREAM_END" /\ r # "LZMA_OK"

\* Refused with the bytes read accounted before the return
RefusedConsumed(f, avail_in) == Consumed(f, avail_in)

\* xzreader_read: the struct fda when lzma_code fails: return ERRXZ(...), -1
\* comes before the bytes read are looked at
Refused(f, avail_in) == f

\* xzreader_read: one iteration of the loop over the given engine
read_loop(engine) ==
    /\ pc = "read"
    /\ srcCalled' = TRUE
    /\ \E p \in peeka(fda[z.fda], Len(Bytes(file[z.fda])), 4) :
          IF p.ret < 0
          THEN /\ fda' = [fda EXCEPT ![z.fda] = p.fda]
               /\ ret' = -1
               /\ err' = ERRNO("read")
               /\ fault' = TRUE
               /\ pc' = "idle"
               /\ obs' = [obs EXCEPT !.win = p.fda, !.sig = "none", !.used = 0, !.n = 0,
                                      !.tick = ~obs.tick]
               /\ UNCHANGED <<z, size, total, buf, dest, codeCalled, got>>
          ELSE IF p.ret = 0
          THEN /\ fda' = [fda EXCEPT ![z.fda] = p.fda]
               /\ ret' = AtEof(total).ret
               /\ err' = AtEof(total).err
               /\ z' = [z EXCEPT !.eof = AtEof(total).eof]
               /\ got' = IF AtEof(total).ret > 0
                         THEN got \o SubSeq(dest, 1, AtEof(total).ret) ELSE got
               /\ pc' = "idle"
               /\ obs' = [obs EXCEPT !.win = p.fda, !.sig = "none", !.used = 0, !.n = 0,
                                      !.tick = ~obs.tick]
               /\ UNCHANGED <<size, total, buf, dest, codeCalled, fault>>
          ELSE \E c \in decode_step(engine, z.lzma, Window(p.fda, Bytes(file[z.fda])),
                                      size) :
               LET eof == (c.ret = "LZMA_STREAM_END")
                   n == Len(c.out)
               IN  /\ codeCalled' = TRUE
                   /\ obs' = [obs EXCEPT !.win = p.fda, !.sig = c.ret, !.used = c.used,
                                          !.n = n, !.tick = ~obs.tick]
                   /\ dest' = Written(dest, buf, c.out)
                   /\ IF CodeFails(c.ret)
                      THEN /\ z' = [z EXCEPT !.lzma = c.st]
                           /\ fda' = [fda EXCEPT ![z.fda] =
                                         Refused(p.fda, Left(p.fda) - c.used)]
                           /\ ret' = -1
                           /\ err' = ERRXZ("lzma_code", c.ret)
                           /\ pc' = "idle"
                           /\ UNCHANGED <<size, total, buf, got, fault>>
                      ELSE /\ z' = [z EXCEPT !.lzma = c.st, !.eof = eof]
                           /\ fda' = [fda EXCEPT ![z.fda] =
                                         Consumed(p.fda, Left(p.fda) - c.used)]
                           /\ size' = size - n
                           /\ buf' = Advanced(buf, n)
                           /\ total' = total + n
                           /\ IF LoopAgain(size - n, eof)
                              THEN UNCHANGED <<pc, ret, got>>
                              ELSE /\ pc' = "idle"
                                   /\ ret' = total + n
                                   /\ got' = got \o SubSeq(dest', 1, total + n)
                           /\ UNCHANGED <<err, fault>>
    /\ UNCHANGED <<file, zp, engines, op, probe, began, frameStart>>

\* xzreader_read: one iteration of the loop over liblzma's decoder
read_iteration == read_loop("liblzma")

----------------------------------------------------------------------------
(* Any caller of the reader: one reader at a time over source 1, opened,    *)
(* read with any sizes, reopened with fda = NULL and freed in any order.    *)
(* Source 2 holds the single-frame descriptor.                              *)

Init ==
    /\ file \in {f \in [Sources -> 1..Len(Files)] : f[2] = 2}
    /\ fda = [s \in Sources |-> Fda0]
    /\ z = NoReader
    /\ zp = "unset"
    /\ engines = 0
    /\ pc = "idle"
    /\ size = 0
    /\ total = 0
    /\ buf = 0
    /\ dest = <<>>
    /\ op = "none"
    /\ ret = 0
    /\ err = Unset
    /\ probe = 0
    /\ srcCalled = FALSE
    /\ codeCalled = FALSE
    /\ began = 0
    /\ got = <<>>
    /\ frameStart = 0
    /\ fault = FALSE
    /\ obs = NoObs
    /\ mpc = "open"
    /\ out = <<>>
    /\ log1 = <<>>
    /\ log2 = <<>>
    /\ exit = -1

Open == xzreader_open(1) /\ UNCHANGED mainvars

Reopen == xzreader_reopen(0) /\ UNCHANGED mainvars

Read == \E c \in 1..MaxSize : xzreader_read(c) /\ UNCHANGED mainvars

ReadStep == read_iteration /\ UNCHANGED mainvars

Free == xzreader_free /\ UNCHANGED mainvars

Next == Open \/ Reopen \/ Read \/ ReadStep \/ Free

Spec == Init /\ [][Next]_vars

----------------------------------------------------------------------------
(* src/main.c: a validating pass, a rewind, an emitting pass *)

Entry(k, rc, data) == [kind |-> k, rc |-> rc, data |-> data]

Logged(pass, e) ==
    IF pass = 1 THEN log1' = Append(log1, e) /\ UNCHANGED log2
    ELSE log2' = Append(log2, e) /\ UNCHANGED log1

ReadPc(pass) == IF pass = 1 THEN "read1" ELSE "read2"

ReopenPc(pass) == IF pass = 1 THEN "reopen1" ELSE "reopen2"

\* zret = xzreader_open(&z, &fda, err)
main_open ==
    /\ mpc = "open"
    /\ xzreader_open(1)
    /\ Logged(1, Entry("begin", ret', <<>>))
    /\ IF ret' < 0 THEN mpc' = "done" /\ exit' = 1
       ELSE IF ret' = 0 THEN mpc' = "done" /\ exit' = 0
       ELSE mpc' = "read1" /\ UNCHANGED exit
    /\ UNCHANGED out

\* what the inner while does with a returned ret
AfterRead(pass) ==
    IF pc' # "idle" THEN UNCHANGED mainvars
    ELSE IF ret' > 0
    THEN /\ out' = IF pass = 1 THEN out
                   ELSE out \o SubSeq(dest', 1, ret')
         /\ UNCHANGED <<mpc, log1, log2, exit>>
    ELSE IF ret' < 0
    THEN /\ mpc' = "done" /\ exit' = 1
         /\ Logged(pass, Entry("read", ret', <<>>))
         /\ UNCHANGED out
    ELSE /\ mpc' = ReopenPc(pass)
         /\ Logged(pass, Entry("frame", ret', got'))
         /\ UNCHANGED <<out, exit>>

\* ret = xzreader_read(z, buf, sizeof buf, err)
main_read(pass) ==
    /\ mpc = ReadPc(pass)
    /\ xzreader_read(MainBufSize)
    /\ AfterRead(pass)

main_read_iteration(pass) ==
    /\ mpc = ReadPc(pass)
    /\ read_iteration
    /\ AfterRead(pass)

\* zret = xzreader_reopen(z, &fda, err)
main_reopen(pass) ==
    /\ mpc = ReopenPc(pass)
    /\ xzreader_reopen(1)
    /\ Logged(pass, Entry("begin", ret', <<>>))
    /\ IF ret' < 0 THEN mpc' = "done" /\ exit' = 1
       ELSE IF ret' = 0 THEN mpc' = (IF pass = 1 THEN "rewind" ELSE "free") /\ UNCHANGED exit
       ELSE mpc' = ReadPc(pass) /\ UNCHANGED exit
    /\ UNCHANGED out

\* lseek(fda->fd, 0, 0); *fda = (struct fda) { fda->fd, fda->buf }
Rewound(F) == [F EXCEPT ![1] = Fda0]

\* my_rewind(z, &fda), with its assert(zret == 1)
my_rewind ==
    /\ mpc = "rewind"
    /\ xzreader_reopen_on(1, Rewound(fda))
    /\ Logged(2, Entry("begin", ret', <<>>))
    /\ mpc' = IF ret' = 1 THEN "read2" ELSE "abort"
    /\ UNCHANGED <<out, exit>>

\* xzreader_free(z); return 0
main_free ==
    /\ mpc = "free"
    /\ xzreader_free
    /\ mpc' = "done"
    /\ exit' = 0
    /\ UNCHANGED <<out, log1, log2>>

MainNext ==
    \/ main_open
    \/ \E pass \in {1, 2} : main_read(pass)
    \/ \E pass \in {1, 2} : main_read_iteration(pass)
    \/ \E pass \in {1, 2} : main_reopen(pass)
    \/ my_rewind
    \/ main_free

MainSpec == Init /\ [][MainNext]_vars

----------------------------------------------------------------------------
(* The frame the reader is on *)

\* the source the reader reads
Src == z.fda

\* the index in the descriptor's frames of the whole frame whose header is at
\* offset o, 0 when there is none
FrameAt(f, o) ==
    IF \E i \in 1..NFrames(f) : FrameOffset(f, i) = o
    THEN CHOOSE i \in 1..NFrames(f) : FrameOffset(f, i) = o
    ELSE 0

\* the last open/reopen returned 1 and the reader has only been read since
Armed == z.live /\ began = 1

\* ... on the header of a whole frame
OnFrame == Armed /\ FrameAt(file[Src], frameStart) # 0

ThisFrame == FrameAt(file[Src], frameStart)

\* the offset of the first byte after the frame the reader is on
FrameEnd == FrameOffset(file[Src], ThisFrame + 1)

FrameContent == Contents[Files[file[Src]].frames[ThisFrame]]

\* the last operation is a read that has returned
ReadReturned == op = "read" /\ pc = "idle"

\* the size argument of the last read
Requested == size + total

----------------------------------------------------------------------------
(* Claims *)

\* C1: boundary safety.  While the reader is on a whole frame, whatever the
\* read sizes and the refills of the window, the source's cursor is never past
\* the first byte after that frame, and when read has set eof the cursor is
\* exactly the offset of the next frame's header.
BoundarySafety ==
    OnFrame => /\ fda[Src].cur <= FrameEnd
               /\ z.eof => fda[Src].cur = FrameEnd

\* C1 witness: read completed a frame that another frame follows, with bytes
\* of the next frame visible in the window.
BoundarySafetyWitness ==
    /\ OnFrame /\ z.eof /\ ReadReturned
    /\ ThisFrame < NFrames(file[Src])
    /\ fda[Src].cur = FrameEnd
    /\ Left(fda[Src]) > 0

\* C2: a read that returns n >= 0 for a request of C bytes has n <= C, and
\* n < C only with eof set.
ReadReturnContract ==
    (ReadReturned /\ ret >= 0) =>
        /\ ret <= Requested
        /\ \A i \in 1..ret : dest[i] # "?"
        /\ ret < Requested => z.eof

\* C2 witness: a short read of at least one byte that has just completed the frame.
ReadReturnContractWitness ==
    ReadReturned /\ ret > 0 /\ ret < Requested /\ z.eof /\ srcCalled

\* C3: a read called with eof set returns 0 at once and changes neither the
\* sources, nor the reader and its engine, nor calls the source or the engine.
IdempotentExhaustion ==
    [][(pc = "idle" /\ z.live /\ z.eof /\ op' = "read") =>
          /\ pc' = "idle"
          /\ ret' = 0
          /\ fda' = fda
          /\ z' = z
          /\ ~srcCalled' /\ ~codeCalled'
          /\ got' = got /\ engines' = engines]_vars

\* C3 witness: a read has returned 0 without calling the source, with bytes
\* of a following frame left in the window.
IdempotentExhaustionWitness ==
    ReadReturned /\ z.eof /\ ret = 0 /\ ~srcCalled /\ Left(fda[Src]) > 0

\* C4: round trip.  On a whole frame, with no fault of the environment, no
\* read fails, the bytes delivered so far are a prefix of the frame's original
\* content, and once eof is set (as it is when a read returns short) they are
\* exactly that content.
RoundTrip ==
    (OnFrame /\ ~fault) =>
        /\ IsPrefix(got, FrameContent)
        /\ ReadReturned => ret >= 0
        /\ z.eof => (pc = "idle" /\ got = FrameContent)
        /\ (ReadReturned /\ ret < Requested) => (z.eof /\ got = FrameContent)

\* C4 witness: the single frame of a descriptor delivered whole by more than
\* one read.
RoundTripWitness ==
    /\ OnFrame /\ ~fault /\ ReadReturned /\ z.eof
    /\ NFrames(file[Src]) = 1 /\ Files[file[Src]].kind = "whole"
    /\ got = FrameContent
    /\ 0 < ret /\ ret < Len(got)

\* the original content of all the frames of descriptor f, in order
AllContent(f) == Flatten([i \in 1..NFrames(f) |-> Contents[Files[f].frames[i]]])

\* what a pass of the driver over the whole frames of f is to log: 1 from each
\* open/reopen on a frame, each frame's content, and 0 from the last reopen
RECURSIVE PassOver(_, _)
PassOver(f, i) ==
    IF i > NFrames(f) THEN <<Entry("begin", 0, <<>>)>>
    ELSE <<Entry("begin", 1, <<>>), Entry("frame", 0, Contents[Files[f].frames[i]])>>
         \o PassOver(f, i + 1)

\* C5: frame sequencing.  Over a descriptor of N >= 1 whole frames and with no
\* fault of the environment, the driver's first pass gets 1 from open, reads
\* each frame's content in order, gets 1 from each of the first N-1 reopens
\* and 0 from the N-th, and no operation fails.
FrameSequencing ==
    (~fault /\ Files[file[1]].kind = "whole" /\ NFrames(file[1]) >= 1) =>
        /\ IsPrefix(log1, PassOver(file[1], 1))
        /\ mpc \in {"rewind", "read2", "reopen2", "free"} => log1 = PassOver(file[1], 1)
        /\ exit # 1

\* C6: mid-frame truncation.  On a frame the descriptor cuts short after its
\* header, eof is never set and no read returns short: a read that returns
\* without failure has filled its buffer with bytes of the content decodable
\* from the cut frame, so only finitely many do, and a read that fails with no
\* fault of the environment fails with "unexpected EOF".
OnCut ==
    /\ Armed
    /\ Files[file[Src]].kind = "cut"
    /\ frameStart = FrameOffset(file[Src], NFrames(file[Src]) + 1)

MidFrameTruncation ==
    OnCut =>
        /\ ~z.eof
        /\ IsPrefix(got, Files[file[Src]].cut)
        /\ (ReadReturned /\ ret >= 0) => ret = Requested
        /\ (ReadReturned /\ ret < 0 /\ ~fault) =>
               err = ERRSTR("xzreader_read", "unexpected EOF")

\* C6 witness: after all the content of a cut frame was delivered, a read has
\* failed with "unexpected EOF".
MidFrameTruncationWitness ==
    /\ OnCut /\ ~fault /\ ReadReturned
    /\ ret = -1 /\ err = ERRSTR("xzreader_read", "unexpected EOF")
    /\ got = Files[file[Src]].cut /\ Len(got) > 0

\* the last operation is an open or a reopen
Began == op \in {"open", "reopen"}

\* C7: open and reopen return 0 exactly when reada returned 0 to the header
\* probe; then no byte of the source is consumed, err is not set, the engine
\* is not fed, and open leaves no reader, no handle and no engine instance.
EmptyInput ==
    Began =>
        /\ ret = 0 <=> (srcCalled /\ probe = 0)
        /\ ret = 0 =>
              /\ err = Unset
              /\ fda[Src].cur = frameStart
              /\ ~codeCalled
              /\ op = "open" => (~z.live /\ zp = "unset" /\ engines = 0)

\* C7 witness: open over the empty descriptor has returned 0.
EmptyInputWitness ==
    op = "open" /\ ret = 0 /\ probe = 0 /\ srcCalled /\ Bytes(file[1]) = <<>>

\* C8: when reada returns at least one byte and fewer than the header's size
\* to the header probe, open and reopen return -1 with "input too small" and
\* lzma_code is not called.
TruncatedHeader ==
    (Began /\ srcCalled /\ 0 < probe /\ probe < LZMA_STREAM_HEADER_SIZE) =>
        /\ ret = -1
        /\ err = ERRSTR("xzreader_begin", "input too small")
        /\ ~codeCalled
        /\ pc = "idle"

\* C8 witness: open over a descriptor of five bytes has failed.
TruncatedHeaderWitness ==
    op = "open" /\ srcCalled /\ probe = 5 /\ ret = -1 /\ ~fault

\* C9: two-pass equivalence.  With no fault of the environment, the reopen of
\* my_rewind returns 1 (no assertion fails), the second pass goes through the
\* results and frame contents of the first, and when it has ended it has
\* succeeded like the first, with stdout holding the content of every frame of
\* the descriptor in order.
TwoPassEquivalence ==
    ~fault =>
        /\ mpc # "abort" /\ pc # "abort"
        /\ IsPrefix(log2, log1)
        /\ (mpc = "done" /\ log2 # <<>>) =>
              (log2 = log1 /\ exit = 0 /\ out = AllContent(file[1]))

\* C9 witness: both passes have succeeded and stdout is not empty.
TwoPassEquivalenceWitness ==
    mpc = "done" /\ exit = 0 /\ ~fault /\ log2 = log1 /\ out # <<>>

\* C10: an open, reopen or read that returns -1 has set both elements of err,
\* and one that returns 0 or more has set neither.
ErrorReporting ==
    (pc = "idle" /\ op \in {"open", "reopen", "read"}) =>
        /\ ret >= -1
        /\ ret = -1 => (err[1] # "unset" /\ err[2] # "unset")
        /\ ret >= 0 => err = Unset

\* C10 witness: open has failed on malloc.
ErrorReportingWitness ==
    pc = "idle" /\ op = "open" /\ ret = -1 /\ err = <<"malloc", xstrerror>>

\* the driver is about to call xzreader_reopen from a pass's loop
DrainReopen == mpc \in {"reopen1", "reopen2"}

\* the driver is about to call xzreader_reopen from my_rewind
RewindReopen == mpc = "rewind"

\* C11 (as amended): in the driver's drain-to-completion pattern eof is true
\* at every entry to the reopen that follows a drained frame, so it does not
\* reset the stream there; at the entry to the reopen of my_rewind, which
\* follows the reopen that returned 0, eof is false and the reset is taken.
DrainReopenComplete ==
    /\ DrainReopen => (z.live /\ z.eof /\ ~ReopenResets(z))
    /\ RewindReopen => (z.live /\ ~z.eof /\ ReopenResets(z))
    /\ (op = "reopen" /\ mpc \in {"read2", "abort"} /\ log2 = <<Entry("begin", ret, <<>>)>>) =>
           (obs.reset /\ ~obs.eof0)

\* C11 witness: the reopen of my_rewind has replaced the stream and returned 1.
DrainReopenCompleteWitness ==
    op = "reopen" /\ mpc = "read2" /\ obs.reset /\ ~obs.eof0 /\ ret = 1 /\ log1 # <<>>

\* C11 as stated: eof is true at every entry to reopen in the driver's
\* pattern, that of my_rewind included, so the reset is never taken.
DrainReopenNeverResets ==
    (DrainReopen \/ RewindReopen) => (z.eof /\ ~ReopenResets(z))

\* the last step of the reader was a decode step of xzreader_read
Decoded == op = "read" /\ obs.sig # "none"

\* the window w shrunk from the front by n bytes: empty when n is all of it,
\* else its suffix
Shrunk(w, n) ==
    IF n = Left(w) THEN [w EXCEPT !.cur = w.pos, !.end = w.pos]
    ELSE [w EXCEPT !.cur = w.cur + n]

\* C12 (as amended): after every decode step that returned LZMA_OK or
\* LZMA_STREAM_END the source's window is the window fed to lzma_code shrunk
\* from the front by exactly the bytes lzma_code used, before the loop acts on
\* the return value; after a decode step that returned anything else the call
\* has returned with the window left as it was fed.
CursorAccounting ==
    Decoded =>
        /\ obs.used <= Left(obs.win)
        /\ ~CodeFails(obs.sig) => fda[Src] = Shrunk(obs.win, obs.used)
        /\ CodeFails(obs.sig) => (fda[Src] = obs.win /\ pc = "idle" /\ ret = -1)

\* C12 witness: a decode step that used a part of its window and asked for
\* more has left the rest of it visible.
CursorAccountingWitness ==
    /\ Decoded /\ obs.sig = "LZMA_OK"
    /\ 0 < obs.used /\ obs.used < Left(obs.win)
    /\ Left(fda[Src]) = Left(obs.win) - obs.used
    /\ fda[Src].end = obs.win.end

\* C12 as stated: the shrink is applied after every decode step, whatever it
\* returned.
CursorAccountingEveryStep ==
    Decoded => fda[Src] = Shrunk(obs.win, obs.used)

\* C13: reopen ends the stream and constructs a fresh one exactly when eof is
\* false on entry; with eof true on entry it keeps the stream, which stays in
\* the state the finished frame left it in; either way eof is false after
\* reopen, whatever it returned.
ReopenEngineDecision ==
    op = "reopen" =>
        /\ obs.reset <=> ~obs.eof0
        /\ obs.eof0 => z.lzma.seq = "end"
        /\ ~obs.eof0 =>
              /\ z.lzma.seq # "end"
              /\ (srcCalled /\ ~codeCalled) => z.lzma = FreshLzma
        /\ ~z.eof

\* C13 witness: a reopen entered with eof true has fed a whole header to the
\* stream it kept.
ReopenEngineDecisionWitness ==
    /\ op = "reopen" /\ obs.eof0 /\ ~obs.reset
    /\ probe = LZMA_STREAM_HEADER_SIZE /\ codeCalled
    /\ z.lzma.seq = "end" /\ ~z.eof

\* C14: when open or reopen returns 1, the source's cursor is exactly the
\* header's size past where it was on entry, reada returned a whole header,
\* lzma_code was called on it and used all of it with no output (the assertion
\* avail_in == 0 holds), and the reader is live with eof false.
OpenSuccessEffects ==
    (Began /\ ret = 1) =>
        /\ pc = "idle"
        /\ fda[Src].cur = frameStart + LZMA_STREAM_HEADER_SIZE
        /\ probe = LZMA_STREAM_HEADER_SIZE
        /\ srcCalled /\ codeCalled
        /\ z.lzma.hn = LZMA_STREAM_HEADER_SIZE /\ z.lzma.seq = "body" /\ z.lzma.pend = <<>>
        /\ z.live /\ ~z.eof
        /\ op = "open" => (zp = "z" /\ engines = 1)

\* C14 witness: open has returned 1 with the cursor right after the header
\* and bytes of the frame's body buffered in the window.
OpenSuccessEffectsWitness ==
    /\ op = "open" /\ ret = 1 /\ z.live /\ ~z.eof
    /\ fda[Src].cur = LZMA_STREAM_HEADER_SIZE
    /\ Left(fda[Src]) > 0

\* the window of f is a suffix of the window of w, or empty
SuffixOf(f, w) == Left(f) = 0 \/ (w.cur <= f.cur /\ f.end = w.end)

\* cur <= end, within what was read from the descriptor
WindowOk(f) == f.cur <= f.end /\ f.end <= f.pos

\* C15: after every operation of the reader each source has cur <= end; a
\* decode step feeds lzma_code the window [cur, end) as peeka left it, the
\* bytes used are bytes of that window, and the step leaves a suffix of that
\* window or the empty window; no operation moves a cursor backwards.
WindowInvariant ==
    /\ [](\A s \in Sources : WindowOk(fda[s]))
    /\ [](Decoded => /\ WindowOk(obs.win)
                     /\ obs.used <= Left(obs.win)
                     /\ SuffixOf(fda[Src], obs.win))
    /\ [][\A s \in Sources : fda[s].cur <= fda'[s].cur]_vars

\* C15 witness: the decode step that completed a frame has left the bytes
\* that follow the frame in the window.
WindowInvariantWitness ==
    /\ Decoded /\ obs.sig = "LZMA_STREAM_END"
    /\ Left(fda[Src]) > 0
    /\ fda[Src].cur = obs.win.cur + obs.used
    /\ fda[Src].end = obs.win.end

----------------------------------------------------------------------------
(* A caller with two sources: as Spec, and reopen is also called with a     *)
(* source, the current one or the other.  Source 1 holds a frame followed   *)
(* by a header cut short, source 2 a single frame; reads ask for MaxSize.   *)

\* the descriptors source 1 holds for a caller that switches sources
SwitchFiles == {6}

SwitchInit == Init /\ file[1] \in SwitchFiles

SwitchReopen == \E s \in Sources : xzreader_reopen(s) /\ UNCHANGED mainvars

SwitchRead == xzreader_read(MaxSize) /\ UNCHANGED mainvars

SwitchNext == Open \/ Reopen \/ SwitchReopen \/ SwitchRead \/ ReadStep \/ Free

SwitchSpec == SwitchInit /\ [][SwitchNext]_vars

\* C16: a reopen called with a source makes it the reader's source, one
\* called with NULL keeps the reader's source, and either changes no other
\* source; a read works on the reader's source and changes no other; free
\* ends the stream and the reader and changes no source.
SourceHandling ==
    [][/\ op' = "reopen" =>
             /\ z'.fda = (IF obs'.arg # 0 THEN obs'.arg ELSE z.fda)
             /\ \A s \in Sources \ {z'.fda} : fda'[s] = fda[s]
       /\ op' = "read" =>
             /\ z'.fda = z.fda
             /\ \A s \in Sources \ {z.fda} : fda'[s] = fda[s]
       /\ op' = "free" =>
             /\ fda' = fda
             /\ ~z'.live /\ engines' = 0]_vars

\* C16 witness: after a reopen that moved the reader from source 1 to
\* source 2, a read has decoded bytes of source 2 and the bytes left in the
\* window of source 1 are still there.
SourceHandlingWitness ==
    /\ op = "read" /\ obs.sig # "none" /\ z.fda = 2
    /\ fda[2].cur > LZMA_STREAM_HEADER_SIZE
    /\ fda[1].cur >= LZMA_STREAM_HEADER_SIZE /\ Left(fda[1]) > 0

\* the number of live readers
Readers == IF z.live THEN 1 ELSE 0

\* the live reader's stream has no decoder
Bare == z.live /\ z.lzma.seq = "none"

\* C17 (as amended): there is never a stream instance without a live reader
\* nor more than one per reader: every return of open other than 1 has ended
\* the stream it initialised, reopen ends the old stream before it initialises
\* the new one, free ends the stream.  A live reader has exactly one instance,
\* except after a reopen whose lzma_stream_decoder failed: then it has none,
\* until a later reopen initialises one.
EngineAccounting ==
    /\ engines <= Readers
    /\ engines = (IF Bare THEN 0 ELSE Readers)
    /\ Bare => (began = -1 /\ fault)
    /\ (op = "reopen" /\ err[1] = "lzma_stream_decoder") => Bare
    /\ (op = "open" /\ ret <= 0) => (~z.live /\ engines = 0)
    /\ op = "free" => (~z.live /\ engines = 0)

\* C17 witness: a reopen has failed in lzma_stream_decoder and left the live
\* reader without a stream instance.
EngineAccountingWitness ==
    /\ op = "reopen" /\ ret = -1 /\ err[1] = "lzma_stream_decoder"
    /\ z.live /\ engines = 0

\* C17 as stated: the number of live stream instances always equals the
\* number of live readers.
EngineAccountingEqual == engines = Readers

\* the last operation is a read called right after a reopen that returned 0
\* or failed
AfterLast == op = "read" /\ obs.prev.op = "reopen" /\ obs.prev.ret <= 0

\* ... after a reopen that met the end of the descriptor
AfterEnd ==
    /\ AfterLast
    /\ \/ obs.prev.ret = 0
       \/ obs.prev.err = ERRSTR("xzreader_begin", "input too small")

\* C19 (as amended): after reopen has returned 0 or failed, eof is false, so
\* a following read does not return at its entry: it runs the loop.  After a
\* reopen that returned 0 or failed with "input too small" the read fails,
\* with "unexpected EOF" unless the descriptor read fails; after another
\* failure it returns 0 only when a decode step of this call returns
\* LZMA_STREAM_END before any byte is recovered.  A read returns 0 only with
\* eof true.
ReadAfterLastFrame ==
    /\ op = "reopen" => ~z.eof
    /\ AfterLast => (pc = "read" \/ srcCalled)
    /\ (AfterLast /\ ReadReturned /\ ret = 0) => (z.eof /\ obs.sig = "LZMA_STREAM_END")
    /\ (AfterEnd /\ ReadReturned) =>
           /\ ret = -1
           /\ err \in {ERRSTR("xzreader_read", "unexpected EOF"), ERRNO("read")}
           /\ ~fault => err = ERRSTR("xzreader_read", "unexpected EOF")
    /\ (ReadReturned /\ ret = 0) => z.eof

\* C19 witness: the read that followed a reopen that returned 0 has failed
\* with "unexpected EOF".
ReadAfterLastFrameWitness ==
    /\ AfterLast /\ ReadReturned /\ obs.prev.ret = 0
    /\ ret = -1 /\ err = ERRSTR("xzreader_read", "unexpected EOF")

\* C19 as stated: the read that follows a reopen that returned 0 or failed
\* does not return 0.
ReadAfterLastFrameFails ==
    (AfterLast /\ ReadReturned) => ret # 0

\* the last operation is a read that has failed
ReadFailed == ReadReturned /\ ret = -1

\* C20: a read that fails returns -1 alone: the bytes the earlier iterations
\* of the call wrote stay in the caller's buffer and the source's cursor stays
\* where they left it, eof stays false, and when it is lzma_code that fails
\* the window is left as peeka left it for that decode step.
FailedReadNotAtomic ==
    ReadFailed =>
        /\ ~z.eof
        /\ total <= Requested /\ buf = total
        /\ \A i \in 1..total : dest[i] # "?"
        /\ obs.cur0 <= obs.win.cur
        /\ obs.win.cur <= fda[Src].cur
        /\ ~CodeFails(obs.sig) => obs.sig = "none"
        /\ CodeFails(obs.sig) => fda[Src] = obs.win

\* C20 witness: lzma_code has failed in an iteration after one that wrote
\* bytes and used bytes of the source: they are in the buffer, the cursor is
\* past them, and of the last window nothing was taken though lzma_code used
\* some of it.
FailedReadNotAtomicWitness ==
    /\ ReadFailed /\ CodeFails(obs.sig)
    /\ total > 0 /\ dest[1] # "?"
    /\ obs.cur0 < fda[Src].cur
    /\ fda[Src] = obs.win /\ obs.used > 0

----------------------------------------------------------------------------
(* The loop of xzreader_read over any decoder that keeps the contract of a  *)
(* decode step and no more: a reader is opened over a descriptor that ends  *)
(* a few bytes after the header, read once and freed.  The loop, once       *)
(* entered, keeps running.                                                  *)

\* the descriptors source 1 holds for the reader over any decoder
AnyFiles == {7, 8}

AnyInit == Init /\ file[1] \in AnyFiles

AnyRead ==
    /\ op = "open"
    /\ \E c \in 1..MaxSize : xzreader_read(c)
    /\ UNCHANGED mainvars

AnyReadStep == read_loop("any") /\ UNCHANGED mainvars

AnyNext == Open \/ AnyRead \/ AnyReadStep \/ Free

AnySpec == AnyInit /\ [][AnyNext]_vars /\ WF_vars(AnyReadStep)

\* the last decode step asked for more having used no input and written no
\* output
Stall == op = "read" /\ obs.sig = "LZMA_OK" /\ obs.used = 0 /\ obs.n = 0

\* the bytes of the source not yet consumed plus the room left in the
\* caller's buffer
Measure == (Len(Bytes(file[Src])) - fda[Src].cur) + size

\* C18 (as amended): every iteration of the loop that does not end the call,
\* and whose decode step used at least one byte or wrote at least one,
\* strictly decreases the bytes left in the source plus the room left in the
\* buffer; so a call to read returns unless the decoder keeps asking for more
\* without using or writing anything.
ReadTermination ==
    /\ [][(pc = "read" /\ pc' = "read" /\ ~Stall') => Measure' < Measure]_vars
    /\ (pc = "read") ~> (pc = "idle" \/ Stall)

\* C18 witness: a call has returned the bytes of several iterations, the
\* last of which wrote bytes without using any input.
ReadTerminationWitness ==
    /\ ReadReturned /\ ret = total
    /\ obs.n > 0 /\ obs.n < total /\ obs.used = 0

\* C18 as stated: over any decoder that keeps the contract of a decode step,
\* every call to read returns.
ReadTerminationAny == (pc = "read") ~> (pc = "idle")

====
